---- MODULE Spec2Model ----
(***************************************************************************)
(* Course catalog service (CS203_LAB_01/app.py): the JSON backing file,    *)
(* load_courses / save_courses, the four route handlers and the tracing    *)
(* span each handler runs in.                                              *)
(*                                                                         *)
(* Strings are sequences of one-character strings.  The backing file is    *)
(* the sequence of chunks json.dump writes (each chunk a string), so that  *)
(* encoding and decoding are computed and a truncated or overwritten file  *)
(* is a value the decoder can reject.                                      *)
(***************************************************************************)
EXTENDS Integers, Sequences, FiniteSets, TLC

\* ------------------------------------------------------------------------
\* Strings
\* ------------------------------------------------------------------------

Whitespace == {" ", "\n", "\t"}

LowerCase == <<"a","b","c","d","e","f","g","h","i","j","k","l","m",
               "n","o","p","q","r","s","t","u","v","w","x","y","z">>
UpperCase == <<"A","B","C","D","E","F","G","H","I","J","K","L","M",
               "N","O","P","Q","R","S","T","U","V","W","X","Y","Z">>
Digits == <<"0","1","2","3","4","5","6","7","8","9">>

\* str.upper(), one character
UpperChar(c) ==
    IF \E i \in 1..Len(LowerCase) : LowerCase[i] = c
    THEN UpperCase[CHOOSE i \in 1..Len(LowerCase) : LowerCase[i] = c]
    ELSE c

\* str.upper()
Upper(s) == [i \in 1..Len(s) |-> UpperChar(s[i])]

\* s[:n]
Prefix(s, n) == SubSeq(s, 1, IF Len(s) < n THEN Len(s) ELSE n)

\* str.strip(): drops leading and trailing whitespace
Strip(s) ==
    IF \A i \in 1..Len(s) : s[i] \in Whitespace
    THEN <<>>
    ELSE LET lo == CHOOSE i \in 1..Len(s) :
                       /\ s[i] \notin Whitespace
                       /\ \A j \in 1..(i-1) : s[j] \in Whitespace
             hi == CHOOSE i \in 1..Len(s) :
                       /\ s[i] \notin Whitespace
                       /\ \A j \in (i+1)..Len(s) : s[j] \in Whitespace
         IN  SubSeq(s, lo, hi)

\* str(n) for n >= 0: decimal digits, most significant first
RECURSIVE Str(_)
Str(n) == IF n < 10 THEN <<Digits[n + 1]>>
          ELSE Str(n \div 10) \o <<Digits[(n % 10) + 1]>>

\* ------------------------------------------------------------------------
\* JSON text, as json.dump(courses, file, indent=4) writes it and
\* json.load(file) reads it
\* ------------------------------------------------------------------------

Quote == "\""
Backslash == "\\"

\* json.encoder: one character of a string literal
EscapeChar(c) ==
    IF c = Quote THEN <<Backslash, Quote>>
    ELSE IF c = Backslash THEN <<Backslash, Backslash>>
    ELSE IF c = "\n" THEN <<Backslash, "n">>
    ELSE IF c = "\t" THEN <<Backslash, "t">>
    ELSE <<c>>

RECURSIVE Escape(_)
Escape(s) == IF s = <<>> THEN <<>> ELSE EscapeChar(Head(s)) \o Escape(Tail(s))

\* the chunk json.dump writes for a string
EncodeStr(s) == <<Quote>> \o Escape(s) \o <<Quote>>

\* json.decoder: the body of a string literal; ok is FALSE on an unescaped
\* quote, an unknown escape or a backslash at the end
RECURSIVE Unescape(_)
Unescape(b) ==
    IF b = <<>> THEN [ok |-> TRUE, val |-> <<>>]
    ELSE IF Head(b) = Quote THEN [ok |-> FALSE, val |-> <<>>]
    ELSE IF Head(b) = Backslash
         THEN IF Len(b) < 2 \/ b[2] \notin {Quote, Backslash, "n", "t"}
              THEN [ok |-> FALSE, val |-> <<>>]
              ELSE LET c == IF b[2] = "n" THEN "\n"
                            ELSE IF b[2] = "t" THEN "\t" ELSE b[2]
                       r == Unescape(SubSeq(b, 3, Len(b)))
                   IN  [ok |-> r.ok, val |-> <<c>> \o r.val]
    ELSE LET r == Unescape(Tail(b))
         IN  [ok |-> r.ok, val |-> <<Head(b)>> \o r.val]

DecodeStr(tok) ==
    IF Len(tok) >= 2 /\ tok[1] = Quote /\ tok[Len(tok)] = Quote
    THEN Unescape(SubSeq(tok, 2, Len(tok) - 1))
    ELSE [ok |-> FALSE, val |-> <<>>]

NotWhitespace(c) == c \notin Whitespace

\* a chunk with the insignificant whitespace removed
Bare(tok) == SelectSeq(tok, NotWhitespace)

\* the keys of a course dict, in the order add_course builds it
KeyCode == <<"c","o","d","e">>
KeyName == <<"n","a","m","e">>
KeyInstructor == <<"i","n","s","t","r","u","c","t","o","r">>
KeySemester == <<"s","e","m","e","s","t","e","r">>

Indent1 == <<"\n", " ", " ", " ", " ">>
Indent2 == <<"\n", " ", " ", " ", " ", " ", " ", " ", " ">>

\* the chunks of one dict: '{', newline_indent, then key, ': ', value with
\* ',' newline_indent between the members, newline_indent, '}'
KeyChunks ==
    <<EncodeStr(KeyCode), EncodeStr(KeyName), EncodeStr(KeyInstructor), EncodeStr(KeySemester)>>
KeySeparator == <<":", " ">>
ItemSeparator == <<",">> \o Indent2

DictChunks(c) ==
    << <<"{">>, Indent2,
       KeyChunks[1], KeySeparator, EncodeStr(c.code), ItemSeparator,
       KeyChunks[2], KeySeparator, EncodeStr(c.name), ItemSeparator,
       KeyChunks[3], KeySeparator, EncodeStr(c.instructor), ItemSeparator,
       KeyChunks[4], KeySeparator, EncodeStr(c.semester),
       Indent1, <<"}">> >>

\* chunks per list item: the '[' or ',' chunk, then the dict's chunks
ItemChunks == 20

\* the chunks json.dump writes for items i.. of the list: '[' or ',' and the
\* newline and indent before each item, then the item
RECURSIVE DumpItems(_, _)
DumpItems(cs, i) ==
    IF i > Len(cs) THEN <<>>
    ELSE << (IF i = 1 THEN <<"[">> ELSE <<",">>) \o Indent1 >>
         \o DictChunks(cs[i]) \o DumpItems(cs, i + 1)

\* json.dump(courses, file, indent=4): the chunks written, in order
Dumps(cs) ==
    IF cs = <<>> THEN << <<"[", "]">> >>
    ELSE DumpItems(cs, 1) \o << <<"\n">>, <<"]">> >>

\* what json.load expects at chunks 1..20 of an item, whitespace removed;
\* <<>> at chunk 1 ('[' or ',') and where a string value stands
ExpectedChunks ==
    << <<>>, <<"{">>, <<>>,
       KeyChunks[1], <<":">>, <<>>, <<",">>,
       KeyChunks[2], <<":">>, <<>>, <<",">>,
       KeyChunks[3], <<":">>, <<>>, <<",">>,
       KeyChunks[4], <<":">>, <<>>,
       <<>>, <<"}">> >>

ValueChunks == {6, 10, 14, 18}

\* json.load(file): ok is FALSE where json.load raises JSONDecodeError
\* (an empty file, a document cut short, text after the document); the
\* documents recognised are the arrays of course objects the program writes
Loads(toks) ==
    LET n == (Len(toks) - 2) \div ItemChunks
        at(i, j) == toks[ItemChunks * (i - 1) + j]
        wellFormed ==
            /\ Len(toks) >= ItemChunks + 2
            /\ Len(toks) = ItemChunks * n + 2
            /\ Bare(toks[Len(toks) - 1]) = <<>>
            /\ Bare(toks[Len(toks)]) = <<"]">>
            /\ \A i \in 1..n :
                 /\ Bare(at(i, 1)) = (IF i = 1 THEN <<"[">> ELSE <<",">>)
                 /\ \A j \in 2..ItemChunks :
                      IF j \in ValueChunks
                      THEN DecodeStr(at(i, j)).ok
                      ELSE Bare(at(i, j)) = ExpectedChunks[j]
    IN  IF Len(toks) = 1 /\ Bare(toks[1]) = <<"[", "]">>
        THEN [ok |-> TRUE, val |-> <<>>]
        ELSE IF wellFormed
        THEN [ok |-> TRUE,
              val |-> [i \in 1..n |->
                         [code |-> DecodeStr(at(i, 6)).val,
                          name |-> DecodeStr(at(i, 10)).val,
                          instructor |-> DecodeStr(at(i, 14)).val,
                          semester |-> DecodeStr(at(i, 18)).val]]]
        ELSE [ok |-> FALSE, val |-> <<>>]

\* ------------------------------------------------------------------------
\* Bounds and inputs
\* ------------------------------------------------------------------------

\* concurrent requests / callers
NumProcs == 2
\* requests started in one run of the service
MaxRequests == 2
\* calls started in one run of the store's callers
MaxCalls == 2
\* submissions started in one run of overlapping submissions
MaxRacing == 2
\* submissions in a run of one-at-a-time submissions
MaxSeqCalls == 11

Procs == 1..NumProcs

Algorithms == <<"A","l","g","o","r","i","t","h","m","s">>
DrLee == <<"D","r","."," ","L","e","e">>
Fall == <<"F","a","l","l">>

NoCourse == [code |-> <<>>, name |-> <<>>, instructor |-> <<>>, semester |-> <<>>]

Course(code, name, instructor, semester) ==
    [code |-> code, name |-> name, instructor |-> instructor, semester |-> semester]

CourseAlgo == Course(<<"A","L","G","O","1">>, Algorithms, DrLee, Fall)
CourseDup == Course(<<"A","L","G","O","1">>, <<"A","l","g","o","2">>, <<"x">>, <<>>)
CourseQuote == Course(<<"Q","2">>, <<"q", Quote, Backslash>>, <<"a", "\n", "b">>, <<" ">>)

\* form fields as submitted (before strip)
FormNames == { <<" ", "\t">>, <<" ">> \o Algorithms \o <<" ">>, <<"a","1">> }
FormInstructors == { <<>>, DrLee \o <<"\n">> }
FormSemesters == { <<" ">> \o Fall }

\* <code> path parameters
PathCodes == { <<"A","L","G","O","1">>, <<"a","l","g","o","1">>, <<"C","S","9","9","9">> }

\* arguments of direct save_courses calls
SaveData == { CourseAlgo, CourseQuote }

\* names submitted one at a time
SeqNames == { <<"a">>, <<"a","1">> }

\* contents of course_catalog.json found on disk when the service starts
DiskFiles ==
    { [exists |-> FALSE, data |-> <<>>],
      [exists |-> TRUE, data |-> <<>>],
      [exists |-> TRUE, data |-> Dumps(<<>>)],
      [exists |-> TRUE, data |-> Dumps(<<CourseAlgo>>)],
      [exists |-> TRUE, data |-> Dumps(<<CourseQuote, CourseAlgo, CourseDup>>)],
      [exists |-> TRUE, data |-> SubSeq(Dumps(<<CourseAlgo, CourseQuote>>), 1, 27)] }

\* contents of course_catalog.json when the store's callers start
StoreFiles ==
    { [exists |-> FALSE, data |-> <<>>],
      [exists |-> TRUE, data |-> Dumps(<<CourseAlgo>>)],
      [exists |-> TRUE, data |-> SubSeq(Dumps(<<CourseAlgo>>), 1, 13)] }

Request(op, method, name, instructor, semester, code, data) ==
    [op |-> op, method |-> method, name |-> name, instructor |-> instructor,
     semester |-> semester, code |-> code, data |-> data]

NoRequest == Request("none", "GET", <<>>, <<>>, <<>>, <<>>, NoCourse)

HttpRequests ==
    { Request("index", "GET", <<>>, <<>>, <<>>, <<>>, NoCourse),
      Request("course_catalog", "GET", <<>>, <<>>, <<>>, <<>>, NoCourse),
      Request("add_course", "GET", <<>>, <<>>, <<>>, <<>>, NoCourse) }
    \cup { Request("add_course", "POST", n, i, s, <<>>, NoCourse) :
             n \in FormNames, i \in FormInstructors, s \in FormSemesters }
    \cup { Request("course_details", "GET", <<>>, <<>>, <<>>, c, NoCourse) :
             c \in PathCodes }

StoreCalls ==
    { Request("load_courses", "GET", <<>>, <<>>, <<>>, <<>>, NoCourse),
      Request("course_catalog", "GET", <<>>, <<>>, <<>>, <<>>, NoCourse) }
    \cup { Request("save_courses", "GET", <<>>, <<>>, <<>>, <<>>, d) : d \in SaveData }
    \cup { Request("course_details", "GET", <<>>, <<>>, <<>>, c, NoCourse) :
             c \in { <<"A","L","G","O","1">> } }
    \cup { Request("add_course", "POST", <<"a","1">>, <<"x">>, <<>>, <<>>, NoCourse) }

Submissions ==
    { Request("submit", "POST", n, <<"x">>, <<>>, <<>>, NoCourse) : n \in SeqNames }

\* ------------------------------------------------------------------------
\* State
\* ------------------------------------------------------------------------

VARIABLES
    fileExists,   \* os.path.exists(COURSE_FILE)
    fileData,     \* the chunks of COURSE_FILE
    fileView,     \* history: View of the file as it is now
    pc,           \* where each request / call stands
    req,          \* its request: route, method, form fields, path code, argument
    courses,      \* its local `courses`
    course,       \* its local `course`
    span,         \* its tracing span
    resp,         \* what it returned or raised
    started,      \* calls started so far
    snap,         \* history: View of the file when the call started
    openSaw,      \* history: View of the file its save_courses opened for writing
    closeLeft,    \* history: View of the file its save_courses left on closing
    met           \* history: the callers in progress at some time during this call

fileVars == <<fileExists, fileData, fileView>>

vars == <<fileExists, fileData, fileView, pc, req, courses, course, span, resp, started,
          snap, openSaw, closeLeft, met>>

File == [exists |-> fileExists, data |-> fileData]

NoSpan == [state |-> "none", ends |-> 0, status |-> "UNSET", http |-> 0, count |-> -1]

\* tracer.start_as_current_span(...).__enter__
StartSpan == [NoSpan EXCEPT !.state = "open"]

\* a context manager that leaves the span open when the block raises
EndSpanLeaky(s, raised) ==
    IF raised THEN [s EXCEPT !.status = "ERROR"]
    ELSE [s EXCEPT !.state = "ended", !.ends = @ + 1]

\* the with block's __exit__: the span ends; an exception escaping the block
\* is recorded with status ERROR and re-raised
EndSpan(s, raised) ==
    [s EXCEPT !.state = "ended",
              !.ends = @ + 1,
              !.status = IF raised THEN "ERROR" ELSE @]

\* bytes in chunks lo..hi
RECURSIVE ByteLen(_, _, _)
ByteLen(toks, lo, hi) ==
    IF lo > hi THEN 0
    ELSE IF lo = hi THEN Len(toks[lo])
    ELSE LET mid == (lo + hi) \div 2
         IN  ByteLen(toks, lo, mid) + ByteLen(toks, mid + 1, hi)

\* load_courses() on a file f: [] when the file is missing, else json.load
LoadFrom(f) ==
    IF ~f.exists THEN [ok |-> TRUE, val |-> <<>>] ELSE Loads(f.data)

\* what a file amounts to: whether it exists, its size in bytes, whether it
\* decodes and the list it decodes to
ViewOf(f) ==
    LET l == LoadFrom(f)
    IN  [exists |-> f.exists, size |-> ByteLen(f.data, 1, Len(f.data)),
         ok |-> l.ok, val |-> l.val]
View == ViewOf(File)
NoFile == ViewOf([exists |-> FALSE, data |-> <<>>])

\* load_courses without the existence check
load_courses_strict ==
    IF ~fileExists THEN [ok |-> FALSE, val |-> <<>>] ELSE Loads(fileData)

\* load_courses swallowing the decode error
load_courses_lenient ==
    IF LoadFrom(File).ok THEN LoadFrom(File) ELSE [ok |-> TRUE, val |-> <<>>]

\* load_courses()
load_courses == LoadFrom(File)

\* the count without the + 1
NewCodeZeroBased(course_name, loaded) == Upper(Prefix(course_name, 4)) \o Str(Len(loaded))

\* line 113: course_name[:4].upper() + str(len(load_courses()) + 1)
NewCode(course_name, loaded) == Upper(Prefix(course_name, 4)) \o Str(Len(loaded) + 1)

\* the validation without the instructor
InvalidNameOnly(r) == Strip(r.name) = <<>>

\* line 106: if not course_name or not instructor
Invalid(r) == Strip(r.name) = <<>> \/ Strip(r.instructor) = <<>>

\* line 142: next((course for course in courses if course['code'] == code), None)
Matches(cs, code) == { i \in 1..Len(cs) : cs[i].code = code }
LastMatch(cs, code) ==
    cs[CHOOSE i \in Matches(cs, code) : \A j \in Matches(cs, code) : i >= j]
FirstMatch(cs, code) ==
    cs[CHOOSE i \in Matches(cs, code) : \A j \in Matches(cs, code) : i <= j]

\* the bytes of chunks lo..hi, in order
RECURSIVE Bytes(_, _, _)
Bytes(toks, lo, hi) ==
    IF lo > hi THEN <<>>
    ELSE IF lo = hi THEN toks[lo]
    ELSE LET mid == (lo + hi) \div 2
         IN  Bytes(toks, lo, mid) \o Bytes(toks, mid + 1, hi)

\* a write at offset 0 through a handle opened earlier: the bytes replace the
\* start of whatever the file holds now; bytes beyond them stay
WriteAtStart(old, new) ==
    LET o == ByteLen(old, 1, Len(old))
        n == ByteLen(new, 1, Len(new))
    IN  IF n >= o THEN new
        ELSE new \o << SubSeq(Bytes(old, 1, Len(old)), n + 1, o) >>

\* dumping the list as loaded, without the new record
SaveTextStale(cs) == Dumps(SubSeq(cs, 1, Len(cs) - 1))

\* the text save_courses dumps
SaveText(cs) == Dumps(cs)

\* courses.insert(0, data)
AppendFront(cs, data) == <<data>> \o cs

\* courses.append(data)
AppendCourse(cs, data) == Append(cs, data)

InFlight(p) == pc[p] \notin {"idle", "done"}

Init ==
    /\ \E f \in DiskFiles : fileExists = f.exists /\ fileData = f.data
    /\ fileView = View
    /\ pc = [p \in Procs |-> "idle"]
    /\ req = [p \in Procs |-> NoRequest]
    /\ courses = [p \in Procs |-> <<>>]
    /\ course = [p \in Procs |-> NoCourse]
    /\ span = [p \in Procs |-> NoSpan]
    /\ resp = [p \in Procs |-> "none"]
    /\ started = 0
    /\ snap = [p \in Procs |-> NoFile]
    /\ openSaw = [p \in Procs |-> NoFile]
    /\ closeLeft = [p \in Procs |-> NoFile]
    /\ met = [p \in Procs |-> {}]

InitEmpty ==
    /\ fileExists = FALSE /\ fileData = <<>>
    /\ fileView = View
    /\ pc = [p \in Procs |-> "idle"]
    /\ req = [p \in Procs |-> NoRequest]
    /\ courses = [p \in Procs |-> <<>>]
    /\ course = [p \in Procs |-> NoCourse]
    /\ span = [p \in Procs |-> NoSpan]
    /\ resp = [p \in Procs |-> "none"]
    /\ started = 0
    /\ snap = [p \in Procs |-> NoFile]
    /\ openSaw = [p \in Procs |-> NoFile]
    /\ closeLeft = [p \in Procs |-> NoFile]
    /\ met = [p \in Procs |-> {}]

InitStore ==
    /\ \E f \in StoreFiles : fileExists = f.exists /\ fileData = f.data
    /\ fileView = View
    /\ pc = [p \in Procs |-> "idle"]
    /\ req = [p \in Procs |-> NoRequest]
    /\ courses = [p \in Procs |-> <<>>]
    /\ course = [p \in Procs |-> NoCourse]
    /\ span = [p \in Procs |-> NoSpan]
    /\ resp = [p \in Procs |-> "none"]
    /\ started = 0
    /\ snap = [p \in Procs |-> NoFile]
    /\ openSaw = [p \in Procs |-> NoFile]
    /\ closeLeft = [p \in Procs |-> NoFile]
    /\ met = [p \in Procs |-> {}]

\* ------------------------------------------------------------------------
\* Starting a request or a call
\* ------------------------------------------------------------------------

Entry(op) ==
    CASE op = "index" -> "index"
      [] op = "course_catalog" -> "catalog"
      [] op = "add_course" -> "add_course"
      [] op = "course_details" -> "details"
      [] op = "load_courses" -> "load"
      [] op = "save_courses" -> "save_load"
      [] op = "submit" -> "add_code"

Begin(p, r, withSpan) ==
    /\ pc[p] \in {"idle", "done"}
    /\ pc' = [pc EXCEPT ![p] = Entry(r.op)]
    /\ req' = [req EXCEPT ![p] = r]
    /\ courses' = [courses EXCEPT ![p] = <<>>]
    /\ course' = [course EXCEPT ![p] = NoCourse]
    /\ span' = [span EXCEPT ![p] = IF withSpan THEN StartSpan ELSE NoSpan]
    /\ resp' = [resp EXCEPT ![p] = "none"]
    /\ started' = started + 1
    /\ snap' = [snap EXCEPT ![p] = fileView]
    /\ openSaw' = [openSaw EXCEPT ![p] = NoFile]
    /\ closeLeft' = [closeLeft EXCEPT ![p] = NoFile]
    /\ met' = [q \in Procs |->
                 IF q = p THEN { o \in Procs \ {p} : InFlight(o) }
                 ELSE IF InFlight(q) THEN met[q] \cup {p} ELSE met[q]]
    /\ UNCHANGED fileVars

\* Flask dispatches a request to its route; the handler enters its with block
StartRequest(p) ==
    /\ started < MaxRequests
    /\ \E r \in HttpRequests : Begin(p, r, TRUE)

\* a caller of the store: load_courses(), save_courses(data), or a handler
\* that loads it
StartCall(p) ==
    /\ started < MaxCalls
    /\ \E r \in StoreCalls : Begin(p, r, r.op \notin {"load_courses", "save_courses"})

\* a submission run up to the point of persisting: lines 113-119, then 127
StartSubmit(p) ==
    /\ started < MaxSeqCalls
    /\ \A q \in Procs : ~InFlight(q)
    /\ \E r \in Submissions : Begin(p, r, FALSE)

StartSubmitRacing(p) ==
    /\ started < MaxRacing
    /\ \E r \in Submissions : Begin(p, r, FALSE)

\* ------------------------------------------------------------------------
\* Steps
\* ------------------------------------------------------------------------

\* a handler leaves its with block: by return, or by an exception
Leave(p, s, response, raised) ==
    /\ pc' = [pc EXCEPT ![p] = "done"]
    /\ span' = [span EXCEPT ![p] = IF s.state = "open" THEN EndSpan(s, raised) ELSE s]
    /\ resp' = [resp EXCEPT ![p] = response]

\* lines 75-80
Index(p) ==
    /\ pc[p] = "index"
    /\ Leave(p, [span[p] EXCEPT !.http = 200], "index.html", FALSE)
    /\ UNCHANGED <<fileVars, req, courses, course, started, snap,
                   openSaw, closeLeft, met>>

\* lines 86-92
CourseCatalog(p) ==
    /\ pc[p] = "catalog"
    /\ LET l == load_courses
       IN  IF l.ok
           THEN /\ courses' = [courses EXCEPT ![p] = l.val]
                /\ Leave(p, [span[p] EXCEPT !.count = Len(l.val), !.http = 200],
                         "course_catalog.html", FALSE)
           ELSE /\ courses' = courses
                /\ Leave(p, span[p], "raise JSONDecodeError", TRUE)
    /\ UNCHANGED <<fileVars, req, course, started, snap,
                   openSaw, closeLeft, met>>

\* lines 98-109 and 132-133
AddCourse(p) ==
    /\ pc[p] = "add_course"
    /\ IF req[p].method = "POST"
       THEN IF Invalid(req[p])
            THEN Leave(p, [span[p] EXCEPT !.status = "ERROR"], "add_course.html", FALSE)
            ELSE /\ pc' = [pc EXCEPT ![p] = "add_code"]
                 /\ UNCHANGED <<span, resp>>
       ELSE Leave(p, [span[p] EXCEPT !.http = 200], "add_course.html", FALSE)
    /\ UNCHANGED <<fileVars, req, courses, course, started, snap,
                   openSaw, closeLeft, met>>

\* lines 113-119
AddCode(p) ==
    /\ pc[p] = "add_code"
    /\ LET l == load_courses
       IN  IF l.ok
           THEN /\ course' = [course EXCEPT ![p] =
                                Course(NewCode(Strip(req[p].name), l.val),
                                       Strip(req[p].name),
                                       Strip(req[p].instructor),
                                       Strip(req[p].semester))]
                /\ pc' = [pc EXCEPT ![p] = IF req[p].op = "add_course"
                                           THEN "add_attr" ELSE "save_load"]
                /\ UNCHANGED <<span, resp>>
           ELSE /\ course' = course
                /\ Leave(p, span[p], "raise JSONDecodeError", TRUE)
    /\ UNCHANGED <<fileVars, req, courses, started, snap,
                   openSaw, closeLeft, met>>

\* lines 122-123: span.set_attribute("code", code) names a variable that the
\* function never binds and the module never defines: NameError
AddAttr(p) ==
    /\ pc[p] = "add_attr"
    /\ Leave(p, span[p], "raise NameError", TRUE)
    /\ UNCHANGED <<fileVars, req, courses, course, started, snap,
                   openSaw, closeLeft, met>>

\* lines 139-152
CourseDetails(p) ==
    /\ pc[p] = "details"
    /\ LET l == load_courses
       IN  IF ~l.ok
           THEN /\ UNCHANGED <<courses, course>>
                /\ Leave(p, span[p], "raise JSONDecodeError", TRUE)
           ELSE /\ courses' = [courses EXCEPT ![p] = l.val]
                /\ IF Matches(l.val, req[p].code) = {}
                   THEN /\ course' = course
                        /\ Leave(p, [span[p] EXCEPT !.status = "ERROR", !.http = 404],
                                 "redirect /catalog", FALSE)
                   ELSE /\ course' = [course EXCEPT ![p] = FirstMatch(l.val, req[p].code)]
                        /\ Leave(p, span[p], "course_details.html", FALSE)
    /\ UNCHANGED <<fileVars, req, started, snap,
                   openSaw, closeLeft, met>>

\* a direct load_courses() call, lines 55-60
LoadCall(p) ==
    /\ pc[p] = "load"
    /\ LET l == load_courses
       IN  IF l.ok
           THEN /\ courses' = [courses EXCEPT ![p] = l.val]
                /\ Leave(p, span[p], "return", FALSE)
           ELSE /\ courses' = courses
                /\ Leave(p, span[p], "raise JSONDecodeError", TRUE)
    /\ UNCHANGED <<fileVars, req, course, started, snap,
                   openSaw, closeLeft, met>>

\* the record save_courses is called with
SaveArg(p) == IF req[p].op = "save_courses" THEN req[p].data ELSE course[p]

\* lines 66-67
SaveLoad(p) ==
    /\ pc[p] = "save_load"
    /\ LET l == load_courses
       IN  IF l.ok
           THEN /\ courses' = [courses EXCEPT ![p] = AppendCourse(l.val, SaveArg(p))]
                /\ pc' = [pc EXCEPT ![p] = "save_open"]
                /\ UNCHANGED <<span, resp>>
           ELSE /\ courses' = courses
                /\ Leave(p, span[p], "raise JSONDecodeError", TRUE)
    /\ UNCHANGED <<fileVars, req, course, started, snap,
                   openSaw, closeLeft, met>>

\* line 68: open(COURSE_FILE, 'w') creates the file or truncates it
SaveOpen(p) ==
    /\ pc[p] = "save_open"
    /\ fileExists' = TRUE
    /\ fileData' = <<>>
    /\ fileView' = ViewOf([exists |-> TRUE, data |-> <<>>])
    /\ openSaw' = [openSaw EXCEPT ![p] = fileView]
    /\ pc' = [pc EXCEPT ![p] = "save_dump"]
    /\ UNCHANGED <<req, courses, course, span, resp, started, snap, closeLeft, met>>

\* line 69 and the end of the with block: the dumped text reaches the file
\* when the handle is closed
SaveDump(p) ==
    /\ pc[p] = "save_dump"
    /\ fileData' = WriteAtStart(fileData, SaveText(courses[p]))
    /\ fileView' = ViewOf([exists |-> TRUE, data |-> fileData'])
    /\ closeLeft' = [closeLeft EXCEPT ![p] = fileView']
    /\ Leave(p, span[p], "return", FALSE)
    /\ UNCHANGED <<fileExists, req, courses, course, started, snap, openSaw, met>>

\* ------------------------------------------------------------------------
\* Specifications
\* ------------------------------------------------------------------------

\* the service: concurrent requests to the four routes
Next ==
    \E p \in Procs :
        \/ StartRequest(p)
        \/ Index(p)
        \/ CourseCatalog(p)
        \/ AddCourse(p)
        \/ AddCode(p)
        \/ AddAttr(p)
        \/ CourseDetails(p)

Spec == Init /\ [][Next]_vars

\* the store: concurrent callers of load_courses and save_courses, and of the
\* handlers that load the store
NextStore ==
    \E p \in Procs :
        \/ StartCall(p)
        \/ LoadCall(p)
        \/ SaveLoad(p)
        \/ SaveOpen(p)
        \/ SaveDump(p)
        \/ CourseCatalog(p)
        \/ CourseDetails(p)
        \/ AddCourse(p)
        \/ AddCode(p)
        \/ AddAttr(p)

SpecStore == InitStore /\ [][NextStore]_vars

\* submissions that derive a code and save, one at a time, from no file
NextSeq ==
    \E p \in {1} :
        \/ StartSubmit(p)
        \/ AddCode(p)
        \/ SaveLoad(p)
        \/ SaveOpen(p)
        \/ SaveDump(p)

SpecSeq == InitEmpty /\ [][NextSeq]_vars

\* the same submissions, overlapping
NextRace ==
    \E p \in Procs :
        \/ StartSubmitRacing(p)
        \/ AddCode(p)
        \/ SaveLoad(p)
        \/ SaveOpen(p)
        \/ SaveDump(p)

SpecRace == InitEmpty /\ [][NextRace]_vars

\* ------------------------------------------------------------------------
\* Claims
\* ------------------------------------------------------------------------

Done(p, op) == pc[p] = "done" /\ req[p].op = op
Alone(p) == met[p] = {}
Blank(str) == \A i \in 1..Len(str) : str[i] \in Whitespace
Trimmed(str) == Strip(str)

\* C1: a POST /add_course whose trimmed name and instructor are non-empty,
\* handled alone on a decodable store of N records, ends with a redirect to
\* /catalog and the store holding N+1 records, the last one the submitted
\* (trimmed) fields with code upper(name[:4]) + str(N+1).
C1_ValidSubmitPersists ==
    \A p \in Procs :
        ( /\ Done(p, "add_course") /\ req[p].method = "POST"
          /\ ~Blank(req[p].name) /\ ~Blank(req[p].instructor)
          /\ Alone(p) /\ snap[p].ok )
        => LET before == snap[p].val
               after == fileView
               n == Len(before)
           IN  /\ resp[p] = "redirect /catalog"
               /\ after.ok
               /\ Len(after.val) = n + 1
               /\ after.val[n + 1] =
                    Course(Upper(Prefix(Trimmed(req[p].name), 4)) \o Str(n + 1),
                           Trimmed(req[p].name), Trimmed(req[p].instructor),
                           Trimmed(req[p].semester))

\* C2: a POST /add_course whose name or instructor is empty after trimming
\* persists nothing (the file is as it was, save_courses was not entered),
\* marks the span ERROR and re-renders the form.
C2_InvalidSubmitRejected ==
    \A p \in Procs :
        ( /\ Done(p, "add_course") /\ req[p].method = "POST"
          /\ (Blank(req[p].name) \/ Blank(req[p].instructor)) )
        => /\ fileView = snap[p]
           /\ openSaw[p] = NoFile /\ closeLeft[p] = NoFile /\ courses[p] = <<>>
           /\ span[p].status = "ERROR"
           /\ resp[p] = "add_course.html"

C2_Witness ==
    \E p \in Procs :
        /\ Done(p, "add_course") /\ req[p].method = "POST"
        /\ ~Blank(req[p].name) /\ Blank(req[p].instructor)
        /\ resp[p] = "add_course.html"
        /\ fileView.ok /\ Len(fileView.val) >= 1

\* C5: GET /course/<code> yields the first stored record whose code equals
\* the requested string exactly; if there is none it marks the span ERROR,
\* sets http.status_code 404 and redirects to /catalog; the file is unchanged.
C5_FindByCode ==
    \A p \in Procs :
        (Done(p, "course_details") /\ snap[p].ok)
        => LET cs == snap[p].val
               hit(i) == /\ cs[i].code = req[p].code
                         /\ \A j \in 1..(i - 1) : cs[j].code # req[p].code
           IN  /\ fileView = snap[p]
               /\ (\E i \in 1..Len(cs) : hit(i))
                    => /\ resp[p] = "course_details.html"
                       /\ \E i \in 1..Len(cs) : hit(i) /\ course[p] = cs[i]
               /\ (\A i \in 1..Len(cs) : cs[i].code # req[p].code)
                    => /\ resp[p] = "redirect /catalog"
                       /\ span[p].status = "ERROR"
                       /\ span[p].http = 404
                       /\ span[p].state = "ended"

C5_Witness ==
    \E p \in Procs, q \in Procs :
        /\ Done(p, "course_details") /\ resp[p] = "course_details.html"
        /\ Cardinality(Matches(snap[p].val, req[p].code)) >= 2
        /\ Done(q, "course_details") /\ resp[q] = "redirect /catalog"
        /\ Len(snap[q].val) >= 1

Handlers == {"index", "course_catalog", "add_course", "course_details"}

\* C8: every span a route handler opens is released exactly once on every
\* exit path (return, early return on a validation failure or on not-found,
\* exception): a span is open while its handler runs, a running handler
\* stands at one of its own statements, and no invocation is over with its
\* span open or ended more than once.
C8_SpanReleased ==
    \A p \in Procs :
        /\ (pc[p] = "done" /\ req[p].op \in Handlers)
             => (span[p].state = "ended" /\ span[p].ends = 1)
        /\ (InFlight(p) /\ req[p].op \in Handlers)
             => ( /\ span[p].state = "open" /\ span[p].ends = 0
                  /\ pc[p] \in {"index", "catalog", "add_course", "add_code",
                                "add_attr", "details"} )

C8_Witness ==
    \E p \in Procs, q \in Procs :
        /\ Done(p, "add_course") /\ resp[p] = "raise NameError"
        /\ span[p].state = "ended" /\ span[p].ends = 1
        /\ Done(q, "course_details") /\ resp[q] = "redirect /catalog"
        /\ span[q].state = "ended" /\ span[q].ends = 1

\* the list a finished save_courses call loaded, and the record it added
Loaded(p) == SubSeq(courses[p], 1, Len(courses[p]) - 1)
Added(p) == courses[p][Len(courses[p])]
Saved(p) == Done(p, "save_courses") /\ resp[p] = "return"

\* the interleaving of C3: p and q overlapped with each other and with no one
\* else, both loaded the same list, and q had written and closed the file
\* when p opened it
Raced(p, q) ==
    /\ p # q /\ Saved(p) /\ Saved(q)
    /\ met[p] = {q} /\ met[q] = {p}
    /\ Loaded(p) = Loaded(q)
    /\ closeLeft[q].ok
    /\ openSaw[p] = closeLeft[q]

\* C3: when two save_courses calls overlap so that both load the same N
\* records before either writes, the file afterwards holds N+1 records: the
\* loaded ones and the last writer's; the other caller's record is gone, and
\* neither call raised.
C3_LostUpdate ==
    \A p \in Procs, q \in Procs :
        Raced(p, q)
        => LET left == closeLeft[p]
           IN  /\ left.ok
               /\ Len(left.val) = Len(Loaded(p)) + 1
               /\ left.val = Append(Loaded(p), Added(p))
               /\ closeLeft[q].val = Append(Loaded(q), Added(q))

C3_Witness ==
    \E p \in Procs, q \in Procs :
        /\ Raced(p, q)
        /\ Len(Loaded(p)) >= 1
        /\ Added(q) # Added(p)
        /\ fileView = closeLeft[p]
        /\ \A i \in 1..Len(closeLeft[p].val) : closeLeft[p].val[i] # Added(q)

\* C4: a save_courses(d) call run alone on a decodable store S leaves a file
\* that load_courses decodes to S with d appended as the last element, and a
\* load_courses call run alone returns the stored sequence.
C4_AppendOnly ==
    \A p \in Procs :
        /\ (Done(p, "save_courses") /\ Alone(p) /\ snap[p].ok)
             => /\ resp[p] = "return"
                /\ closeLeft[p].ok
                /\ closeLeft[p].val = Append(snap[p].val, req[p].data)
        /\ (Done(p, "load_courses") /\ Alone(p) /\ snap[p].ok)
             => /\ resp[p] = "return"
                /\ courses[p] = snap[p].val
                /\ openSaw[p] = NoFile /\ closeLeft[p] = NoFile

C4_Witness ==
    \E p \in Procs, q \in Procs :
        /\ Done(p, "save_courses") /\ Alone(p)
        /\ Len(snap[p].val) >= 1
        /\ req[p].data = CourseQuote
        /\ Done(q, "load_courses") /\ Alone(q)
        /\ courses[q] = <<CourseAlgo, CourseQuote>>

\* the file was missing when p loaded it
LoadedNoFile(p) == ~fileView.exists \/ (~snap[p].exists /\ Alone(p))

\* C6: with no backing file load_courses returns the empty list and raises
\* nothing: the catalog reports courses.count = 0, a detail lookup is
\* not-found, and a save_courses call run alone creates the file holding
\* exactly the one new record.
C6_MissingFile ==
    \A p \in Procs :
        /\ (Done(p, "load_courses") /\ LoadedNoFile(p))
             => (resp[p] = "return" /\ courses[p] = <<>>)
        /\ (Done(p, "course_catalog") /\ LoadedNoFile(p))
             => (resp[p] = "course_catalog.html" /\ span[p].count = 0)
        /\ (Done(p, "course_details") /\ LoadedNoFile(p))
             => (resp[p] = "redirect /catalog" /\ span[p].http = 404)
        /\ (Done(p, "save_courses") /\ ~snap[p].exists /\ Alone(p))
             => /\ resp[p] = "return"
                /\ ~openSaw[p].exists
                /\ closeLeft[p].exists
                /\ closeLeft[p].ok
                /\ closeLeft[p].val = <<req[p].data>>

C6_Witness ==
    \E p \in Procs, q \in Procs :
        /\ Done(p, "save_courses") /\ ~snap[p].exists /\ Alone(p)
        /\ fileView = closeLeft[p]
        /\ Done(q, "course_catalog") /\ ~snap[q].exists /\ Alone(q)
        /\ span[q].count = 0

Undecodable == fileView.exists /\ ~fileView.ok
LoadLabels == {"load", "save_load", "catalog", "details", "add_code"}

\* C7: when the backing file exists and cannot be decoded, every operation
\* that loads it ends there with the decode error raised (a handler's span
\* ends with status ERROR), without opening the file for writing and with
\* the file's contents unchanged.
C7_CorruptFails ==
    [][\A p \in Procs :
          (Undecodable /\ pc[p] \in LoadLabels /\ pc'[p] # pc[p])
          => /\ pc'[p] = "done"
             /\ resp'[p] = "raise JSONDecodeError"
             /\ fileExists' = fileExists /\ fileData' = fileData
             /\ openSaw'[p] = NoFile
             /\ req[p].op \in Handlers
                  => (span'[p].state = "ended" /\ span'[p].status = "ERROR")]_vars

C7_Witness ==
    \E p \in Procs :
        /\ Undecodable
        /\ \A q \in Procs : ~InFlight(q)
        /\ Done(p, "save_courses") /\ resp[p] = "raise JSONDecodeError"
        /\ openSaw[p] = NoFile

====
